---- MODULE Spec2Model ----
(***************************************************************************)
(* Model of data_warehouse/etl/gold/fact_transactions.py:                  *)
(* build_fact_transactions, one run of the gold-layer fact build.          *)
(*                                                                         *)
(* A DataFrame is a sequence of rows, a row a record from column names to  *)
(* values.  A calendar day is a positive integer; a pandas Timestamp is a  *)
(* tick count, TicksPerDay ticks to the day, so that midnight of day d is  *)
(* d * TicksPerDay.  NaN / NaT (a missing value) is 0, which no day, tick  *)
(* or surrogate key ever equals.  The pass-through payload columns         *)
(* transaction_key and current_exchange_rate are carried by no operation   *)
(* that looks at them and are left out of the rows.                        *)
(***************************************************************************)
EXTENDS Integers, Sequences, FiniteSets, TLC

VARIABLES pc, raw_transactions, given, dim_customer, dim_currency,
          dim_category, dim_date, transactions_df, fact_transactions,
          output, writes, error

vars == <<pc, raw_transactions, given, dim_customer, dim_currency,
          dim_category, dim_date, transactions_df, fact_transactions,
          output, writes, error>>

\* ------------------------------------------------------------- bounds
MaxTxn == 2
MaxVersions == 2
MaxDimRows == 2
MaxDay == 2

\* ---------------------------------------------------- values and scales
NaN == 0
NaT == 0
TicksPerDay == 2
\* pd.Timestamp("2099-12-31"), as a day number
FarFutureDay == 2
\* the policy threshold 500 (EUR), in cents
HighValueThreshold == 50000

Days == 1..MaxDay
CustomerIds == {1, 2}
Currencies == {"EUR", "USD"}
Categories == {"food", "travel"}
Amounts == {HighValueThreshold - 1, HighValueThreshold, HighValueThreshold + 1}

\* ------------------------------------------------------ pandas helpers
\* pd.to_datetime of a date value (a day, or missing): midnight of that day
ToDatetime(d) == IF d = NaT THEN NaT ELSE d * TicksPerDay

\* pd.to_datetime of a raw timestamp, read as <<day, tick within the day>>
ParseTimestamp(s) == s[1] * TicksPerDay + s[2]

\* Series.dt.date: the calendar day of a Timestamp
DtDate(ts) == ts \div TicksPerDay

\* Series.fillna
FillNa(v, with) == IF v = NaT THEN with ELSE v

\* elementwise >= and <= of two datetime columns: False where either is NaT
Ge(a, b) == a # NaT /\ b # NaT /\ a >= b
Le(a, b) == a # NaT /\ b # NaT /\ a <= b

RECURSIVE Concat(_)
Concat(ss) == IF ss = <<>> THEN <<>> ELSE Head(ss) \o Concat(Tail(ss))

Map(df, F(_)) == [i \in DOMAIN df |-> F(df[i])]

\* df.drop(columns=...)
DropColumns(df, cols) ==
    Map(df, LAMBDA r : [c \in (DOMAIN r) \ cols |-> r[c]])

\* df[[...]]
Project(df, cols) == Map(df, LAMBDA r : [c \in cols |-> r[c]])

\* DataFrame.merge(right, how="left"): every left row, in order, once per
\* right row with the same key, or once with missing right columns
LeftMerge(left, right, left_on, right_on, add) ==
    Concat(Map(left, LAMBDA l :
        LET m == SelectSeq(right, LAMBDA x : x[right_on] = l[left_on])
        IN  IF m = <<>>
            THEN <<l @@ [c \in add |-> NaN]>>
            ELSE [i \in DOMAIN m |-> l @@ [c \in add |-> m[i][c]]]))

\* a merge without validate=
KeysUnique_Unvalidated(right, right_on) == TRUE

\* validate="many_to_one": the merge keys are unique in the right table
KeysUnique(right, right_on) ==
    \A i, j \in DOMAIN right : right[i][right_on] = right[j][right_on] => i = j

\* Series.isnull().sum()
NullCount(df, col) == Cardinality({i \in DOMAIN df : df[i][col] = NaN})

\* groupby("transaction_id").size().max(): NaN for an empty table
GroupSizeMax(df) ==
    IF df = <<>> THEN NaN
    ELSE LET size(id) == Cardinality({i \in DOMAIN df : df[i].transaction_id = id})
             sizes == {size(df[i].transaction_id) : i \in DOMAIN df}
         IN  CHOOSE n \in sizes : \A k \in sizes : k <= n

\* ------------------------------------------------ stages of the run
\* the flag with an inclusive threshold
HighValueFlag_Inclusive(amount) == IF amount >= HighValueThreshold THEN 1 ELSE 0

\* amount > 500, as an integer
HighValueFlag(amount) == IF amount > HighValueThreshold THEN 1 ELSE 0

\* rename, parse the timestamp, derive the date and the high-value flag
NormalizeRow(t) ==
    LET ts == ParseTimestamp(t.timestamp)
    IN  [transaction_id            |-> t.transaction_id,
         customer_id               |-> t.customer_id,
         transaction_currency      |-> t.transaction_currency,
         category                  |-> t.category,
         transaction_timestamp     |-> ts,
         transaction_amount_eur    |-> t.amount_eur,
         transaction_date          |-> DtDate(ts),
         is_high_value_transaction |-> HighValueFlag(t.amount_eur)]

\* the two column assignments on the caller's dim_customer
CoerceCustomerRow(v) ==
    [v EXCEPT !.effective_from = ToDatetime(@),
              !.effective_to   = FillNa(ToDatetime(@), ToDatetime(FarFutureDay))]

\* the row filter with an exclusive upper bound
InValidity_HalfOpen(r) ==
    Ge(r.transaction_date, r.effective_from)
    /\ r.effective_to # NaT /\ r.transaction_date < r.effective_to

\* the row filter: effective_from <= transaction_date <= effective_to
InValidity(r) ==
    Ge(r.transaction_date, r.effective_from) /\ Le(r.transaction_date, r.effective_to)

\* the assertion written as "some transaction resolved"
ResolutionOk_AtLeastOne(df) == GroupSizeMax(df) >= 1

\* the assertion written as "no group is larger than one", true of an empty table
ResolutionOk_NoneAboveOne(df) ==
    \A i \in DOMAIN df :
        Cardinality({j \in DOMAIN df : df[j].transaction_id = df[i].transaction_id}) = 1

\* the asserted condition on the filtered table
ResolutionOk(df) == GroupSizeMax(df) = 1

\* the final asserts left out
NullKeyError_Unchecked(fact) == "none"

\* what the four final asserts require of the fact table
NullKeyError(fact) ==
    IF      NullCount(fact, "customer_key") # 0 THEN "Missing customer_key detected."
    ELSE IF NullCount(fact, "currency_key") # 0 THEN "Missing currency_key detected."
    ELSE IF NullCount(fact, "category_key") # 0 THEN "Missing category_key detected."
    ELSE IF NullCount(fact, "date_key") # 0     THEN "Missing date_key detected."
    ELSE "none"

FactColumns ==
    {"transaction_id", "customer_key", "currency_key", "category_key", "date_key",
     "transaction_timestamp", "transaction_amount_eur", "is_high_value_transaction"}

NoTable == <<>>
\* the artifact a previous run left at the destination
PriorArtifact == <<[transaction_id |-> 0]>>

Scd2Error == "SCD2 resolution failed: duplicate customer versions detected."
CurrencyMergeError == "MergeError: dim_currency keys are not unique"
CategoryMergeError == "MergeError: dim_category keys are not unique"
DateMergeError == "MergeError: dim_date keys are not unique"

\* ------------------------------------------------------------ inputs
\* the sequences of at most n elements of S in non-decreasing Rank order:
\* one representative of every table up to the order of its rows
SortedSeqs(S, n, Rank(_)) ==
    UNION {{s \in [1..k -> S] : \A i \in 1..(k - 1) : Rank(s[i]) <= Rank(s[i + 1])}
           : k \in 0..n}

IndexIn(S, x) == Cardinality({y \in S : y < x})
CurrencyRank(c) == IF c = "EUR" THEN 0 ELSE 1
CategoryRank(c) == IF c = "food" THEN 0 ELSE 1

\* a row of the table transform_transactions_fn returns
RawTxn(id, cust, day, tod, amount, cur, cat) ==
    [transaction_id       |-> id,
     customer_id          |-> cust,
     timestamp            |-> <<day, tod>>,
     amount_eur           |-> amount,
     transaction_currency |-> cur,
     category             |-> cat]

LastTick == TicksPerDay - 1

\* static dimensions with one row for every natural key
FullCurrency ==
    <<[transaction_currency |-> "EUR", currency_key |-> 1],
      [transaction_currency |-> "USD", currency_key |-> 2]>>
FullCategory ==
    <<[category |-> "food", category_key |-> 1],
      [category |-> "travel", category_key |-> 2]>>
FullDate == [d \in Days |-> [date |-> d, date_key |-> 10 + d]]

\* the customer dimension of the worked scenario: customer 1 with a closed first
\* version and an open-ended current one; customer 2 has no version.  In the
\* second table the first version has no surrogate key.
ScenarioCustomer ==
    <<[customer_id |-> 1, customer_key |-> 100, effective_from |-> 1, effective_to |-> 1],
      [customer_id |-> 1, customer_key |-> 101, effective_from |-> 2, effective_to |-> NaT]>>
ScenarioCustomerNoKey ==
    <<[customer_id |-> 1, customer_key |-> NaN, effective_from |-> 1, effective_to |-> 1],
      [customer_id |-> 1, customer_key |-> 101, effective_from |-> 2, effective_to |-> NaT]>>

VersionOptions ==
    {v \in [customer_id : CustomerIds, effective_from : Days,
            effective_to : Days \cup {NaT}] :
        v.effective_to = NaT \/ v.effective_from <= v.effective_to}
VersionRank(v) ==
    (v.customer_id * (MaxDay + 1) + v.effective_from) * (MaxDay + 1) + v.effective_to

CustomerTables ==
    {[i \in DOMAIN s |-> [customer_id    |-> s[i].customer_id,
                          customer_key   |-> 100 + i,
                          effective_from |-> s[i].effective_from,
                          effective_to   |-> s[i].effective_to]]
     : s \in SortedSeqs(VersionOptions, MaxVersions, VersionRank)}

StaticTables(keys, Rank(_), on, key_col) ==
    {[i \in DOMAIN s |-> (on :> s[i]) @@ (key_col :> i)]
     : s \in SortedSeqs(keys, MaxDimRows, Rank)}
CurrencyTables == StaticTables(Currencies, CurrencyRank, "transaction_currency", "currency_key")
CategoryTables == StaticTables(Categories, CategoryRank, "category", "category_key")
DateTables == StaticTables(Days, LAMBDA d : d, "date", "date_key")

\* transactions of either customer on any day, against any customer dimension
InitTemporal ==
    /\ raw_transactions \in
          {[i \in DOMAIN s |-> RawTxn(i, s[i].customer_id, s[i].day, LastTick,
                                      HighValueThreshold, "EUR", "food")]
           : s \in SortedSeqs([customer_id : CustomerIds, day : Days], MaxTxn,
                              LAMBDA o : o.customer_id * (MaxDay + 1) + o.day)}
    /\ dim_customer \in CustomerTables
    /\ dim_currency = FullCurrency
    /\ dim_category = FullCategory
    /\ dim_date = FullDate

\* at most one transaction against any three static dimensions
InitKeys ==
    /\ raw_transactions \in
          {<<>>} \cup {<<RawTxn(1, 1, d, LastTick, HighValueThreshold, cur, cat)>>
                       : d \in Days, cur \in Currencies, cat \in Categories}
    /\ dim_customer = ScenarioCustomer
    /\ dim_currency \in CurrencyTables
    /\ dim_category \in CategoryTables
    /\ dim_date \in DateTables

\* transactions in any currency against any currency dimension
InitCurrency ==
    /\ raw_transactions \in
          {[i \in DOMAIN s |-> RawTxn(i, 1, 1, LastTick, HighValueThreshold, s[i], "food")]
           : s \in SortedSeqs(Currencies, MaxTxn, CurrencyRank)}
    /\ dim_customer = ScenarioCustomer
    /\ dim_currency \in CurrencyTables
    /\ dim_category = FullCategory
    /\ dim_date = FullDate

\* transactions of any category against any category dimension
InitCategory ==
    /\ raw_transactions \in
          {[i \in DOMAIN s |-> RawTxn(i, 1, 1, LastTick, HighValueThreshold, "EUR", s[i])]
           : s \in SortedSeqs(Categories, MaxTxn, CategoryRank)}
    /\ dim_customer = ScenarioCustomer
    /\ dim_currency = FullCurrency
    /\ dim_category \in CategoryTables
    /\ dim_date = FullDate

\* transactions on any day against any date dimension
InitDate ==
    /\ raw_transactions \in
          {[i \in DOMAIN s |-> RawTxn(i, 1, s[i], LastTick, HighValueThreshold, "EUR", "food")]
           : s \in SortedSeqs(Days, MaxTxn, LAMBDA d : d)}
    /\ dim_customer = ScenarioCustomer
    /\ dim_currency = FullCurrency
    /\ dim_category = FullCategory
    /\ dim_date \in DateTables

\* transactions of any amount at any time of day, transaction_id not
\* necessarily unique, against complete dimensions
InitAmounts ==
    /\ raw_transactions \in
          {[i \in DOMAIN s |-> RawTxn(s[i].id, 1, 1, s[i].tod, s[i].amount, "EUR", "food")]
           : s \in SortedSeqs([id : 1..MaxTxn, tod : 0..LastTick, amount : Amounts],
                              MaxTxn,
                              LAMBDA o : (o.id * TicksPerDay + o.tod) * (HighValueThreshold + 2)
                                         + o.amount)}
    /\ dim_customer \in {ScenarioCustomer, ScenarioCustomerNoKey}
    /\ dim_currency = FullCurrency
    /\ dim_category = FullCategory
    /\ dim_date = FullDate

Init ==
    /\ \/ InitTemporal
       \/ InitKeys
       \/ InitCurrency
       \/ InitCategory
       \/ InitDate
       \/ InitAmounts
    /\ given = [dim_customer |-> dim_customer, dim_currency |-> dim_currency,
                dim_category |-> dim_category, dim_date |-> dim_date]
    /\ pc = "normalize"
    /\ transactions_df = NoTable
    /\ fact_transactions = NoTable
    /\ output = PriorArtifact
    /\ writes = 0
    /\ error = "none"

Normalize ==
    /\ pc = "normalize"
    /\ transactions_df' = Map(raw_transactions, NormalizeRow)
    /\ pc' = "coerce"
    /\ UNCHANGED <<raw_transactions, given, dim_customer, dim_currency, dim_category,
                   dim_date, fact_transactions, output, writes, error>>

CoerceDates ==
    /\ pc = "coerce"
    /\ dim_customer' = Map(dim_customer, CoerceCustomerRow)
    /\ transactions_df' =
          Map(transactions_df,
              LAMBDA r : [r EXCEPT !.transaction_date = ToDatetime(@)])
    /\ pc' = "resolve"
    /\ UNCHANGED <<raw_transactions, given, dim_currency, dim_category,
                   dim_date, fact_transactions, output, writes, error>>

ResolveCustomer ==
    /\ pc = "resolve"
    /\ LET merged   == LeftMerge(transactions_df, dim_customer,
                                 "customer_id", "customer_id",
                                 {"customer_key", "effective_from", "effective_to"})
           filtered == SelectSeq(merged, InValidity)
       IN  IF ResolutionOk(filtered)
           THEN /\ transactions_df' =
                      DropColumns(filtered,
                                  {"customer_id", "effective_from", "effective_to"})
                /\ pc' = "currency"
                /\ error' = error
           ELSE /\ transactions_df' = filtered
                /\ pc' = "aborted"
                /\ error' = Scd2Error
    /\ UNCHANGED <<raw_transactions, given, dim_customer, dim_currency, dim_category,
                   dim_date, fact_transactions, output, writes>>

MergeCurrency ==
    /\ pc = "currency"
    /\ IF KeysUnique(dim_currency, "transaction_currency")
       THEN /\ transactions_df' =
                  LeftMerge(transactions_df, dim_currency,
                            "transaction_currency", "transaction_currency",
                            {"currency_key"})
            /\ pc' = "category"
            /\ error' = error
       ELSE /\ pc' = "aborted"
            /\ error' = CurrencyMergeError
            /\ UNCHANGED transactions_df
    /\ UNCHANGED <<raw_transactions, given, dim_customer, dim_currency, dim_category,
                   dim_date, fact_transactions, output, writes>>

MergeCategory ==
    /\ pc = "category"
    /\ IF KeysUnique(dim_category, "category")
       THEN /\ transactions_df' =
                  LeftMerge(transactions_df, dim_category,
                            "category", "category", {"category_key"})
            /\ pc' = "date"
            /\ error' = error
       ELSE /\ pc' = "aborted"
            /\ error' = CategoryMergeError
            /\ UNCHANGED transactions_df
    /\ UNCHANGED <<raw_transactions, given, dim_customer, dim_currency, dim_category,
                   dim_date, fact_transactions, output, writes>>

MergeDate ==
    /\ pc = "date"
    /\ dim_date' = Map(dim_date, LAMBDA d : [d EXCEPT !.date = ToDatetime(@)])
    /\ IF KeysUnique(dim_date', "date")
       THEN /\ transactions_df' =
                  LeftMerge(transactions_df, dim_date',
                            "transaction_date", "date", {"date", "date_key"})
            /\ pc' = "validate"
            /\ error' = error
       ELSE /\ pc' = "aborted"
            /\ error' = DateMergeError
            /\ UNCHANGED transactions_df
    /\ UNCHANGED <<raw_transactions, given, dim_customer, dim_currency, dim_category,
                   fact_transactions, output, writes>>

Validate ==
    /\ pc = "validate"
    /\ fact_transactions' = Project(transactions_df, FactColumns)
    /\ IF NullKeyError(fact_transactions') = "none"
       THEN /\ pc' = "persist"
            /\ error' = error
       ELSE /\ pc' = "aborted"
            /\ error' = NullKeyError(fact_transactions')
    /\ UNCHANGED <<raw_transactions, given, dim_customer, dim_currency, dim_category,
                   dim_date, transactions_df, output, writes>>

Persist ==
    /\ pc = "persist"
    /\ output' = fact_transactions
    /\ writes' = writes + 1
    /\ pc' = "done"
    /\ UNCHANGED <<raw_transactions, given, dim_customer, dim_currency, dim_category,
                   dim_date, transactions_df, fact_transactions, error>>

Next ==
    \/ Normalize
    \/ CoerceDates
    \/ ResolveCustomer
    \/ MergeCurrency
    \/ MergeCategory
    \/ MergeDate
    \/ Validate
    \/ Persist

Spec == Init /\ [][Next]_vars

\* ---------------------------------------- what the claims are about
\* Stated on the tables as the caller passed them (given) and on the rows
\* transform_transactions_fn returned, in calendar days.

TxnDay(t) == t.timestamp[1]
ClosedTo(v) == IF v.effective_to = NaT THEN FarFutureDay ELSE v.effective_to
Covers(v, t) ==
    /\ v.customer_id = t.customer_id
    /\ v.effective_from <= TxnDay(t)
    /\ TxnDay(t) <= ClosedTo(v)
Matches(t) == {k \in DOMAIN given.dim_customer : Covers(given.dim_customer[k], t)}

RawRows == {raw_transactions[i] : i \in DOMAIN raw_transactions}
HasGap == \E t \in RawRows : Matches(t) = {}
HasOverlap == \E t \in RawRows : Cardinality(Matches(t)) >= 2
NoSurvivor == \A t \in RawRows : Matches(t) = {}
UniqueIds ==
    \A i, j \in DOMAIN raw_transactions :
        raw_transactions[i].transaction_id = raw_transactions[j].transaction_id => i = j
VersionsDisjoint ==
    \A i, j \in DOMAIN given.dim_customer :
        LET v == given.dim_customer[i]
            w == given.dim_customer[j]
        IN  (i # j /\ v.customer_id = w.customer_id)
            => (ClosedTo(v) < w.effective_from \/ ClosedTo(w) < v.effective_from)
WellFormed == VersionsDisjoint /\ ~HasGap /\ UniqueIds

HasDuplicateKey(dim, on) == \E i, j \in DOMAIN dim : i # j /\ dim[i][on] = dim[j][on]
HasKey(dim, on, k) == \E i \in DOMAIN dim : dim[i][on] = k
LacksDimensionEntry(t) ==
    \/ Matches(t) = {}
    \/ ~HasKey(given.dim_currency, "transaction_currency", t.transaction_currency)
    \/ ~HasKey(given.dim_category, "category", t.category)
    \/ ~HasKey(given.dim_date, "date", TxnDay(t))

DuplicateInAStaticDimension ==
    \/ HasDuplicateKey(given.dim_currency, "transaction_currency")
    \/ HasDuplicateKey(given.dim_category, "category")
    \/ HasDuplicateKey(given.dim_date, "date")

AfterCurrency == {"category", "date", "validate", "persist", "done"}
AfterCategory == {"date", "validate", "persist", "done"}
AfterDate == {"validate", "persist", "done"}
\* the run got past the SCD2 resolution check
Resolved == pc \in {"currency"} \cup AfterCurrency \/ (pc = "aborted" /\ error # Scd2Error)
NullKeyErrors ==
    {"Missing customer_key detected.", "Missing currency_key detected.",
     "Missing category_key detected.", "Missing date_key detected."}
Untouched == output = PriorArtifact /\ writes = 0

Rows(df) == {df[i] : i \in DOMAIN df}
RowsOf(df, id) == {i \in DOMAIN df : df[i].transaction_id = id}
KeyColumns == {"customer_key", "currency_key", "category_key", "date_key"}
\* every table of the run that carries the normalised columns
NormalisedRows ==
    (IF pc = "normalize" THEN {} ELSE Rows(transactions_df))
    \cup Rows(fact_transactions)
    \cup (IF writes > 0 THEN Rows(output) ELSE {})

\* C1 (as claimed): a transaction dated outside every validity interval of its
\* customer_id aborts the run at the resolution check; the run never continues
\* past that check without it.
C1_GapAborts == HasGap => ~Resolved

\* C2: when two versions of a customer both contain a transaction's date, the run
\* never gets past the SCD2 resolution check: it aborts there, before any static
\* join and before any write.
C2_OverlapAborts ==
    HasOverlap => /\ ~Resolved
                  /\ Untouched
                  /\ (pc = "aborted" => error = Scd2Error)
C2_Witness == HasOverlap /\ pc = "aborted" /\ error = Scd2Error /\ ~HasGap

\* C3: for well-formed inputs, once the customer is resolved every transaction has
\* exactly one row, and it carries the customer_key of the one version of its
\* customer_id with effective_from <= transaction_date <= effective_to, a null
\* effective_to counting as the far-future date.
C3_PointInTime ==
    (WellFormed /\ Resolved) =>
        /\ \A t \in RawRows :
              \E i \in DOMAIN transactions_df :
                  /\ RowsOf(transactions_df, t.transaction_id) = {i}
                  /\ \E k \in DOMAIN given.dim_customer :
                        /\ Matches(t) = {k}
                        /\ transactions_df[i].customer_key = given.dim_customer[k].customer_key
        /\ \A r \in Rows(fact_transactions) \cup (IF writes > 0 THEN Rows(output) ELSE {}) :
              \E t \in RawRows, k \in DOMAIN given.dim_customer :
                  /\ t.transaction_id = r.transaction_id
                  /\ Matches(t) = {k}
                  /\ r.customer_key = given.dim_customer[k].customer_key
C3_Witness ==
    /\ WellFormed /\ pc = "done"
    /\ \E t \in RawRows, k \in DOMAIN given.dim_customer :
          /\ Matches(t) = {k}
          /\ TxnDay(t) = given.dim_customer[k].effective_to
          /\ TxnDay(t) = given.dim_customer[k].effective_from
    /\ \E t \in RawRows, k \in DOMAIN given.dim_customer :
          /\ Matches(t) = {k}
          /\ given.dim_customer[k].effective_to = NaT

\* C4 (as claimed): a published fact table has no null key, and a transaction with
\* no matching customer, currency, category or date entry keeps the run from
\* publishing.
C4_ReferentialCompleteness ==
    /\ \A r \in Rows(IF writes > 0 THEN output ELSE <<>>) : \A c \in KeyColumns : r[c] # NaN
    /\ (\E t \in RawRows : LacksDimensionEntry(t)) => pc \notin {"persist", "done"}

\* C5: the destination is written at most once, only by a run whose SCD2 check,
\* three join validations and four null-key checks passed; an aborted run leaves
\* it as it was.
C5_NoPartialWrites ==
    /\ writes <= 1
    /\ (writes > 0 \/ output # PriorArtifact) =>
          /\ pc = "done"
          /\ output = fact_transactions
          /\ output # <<>>
          /\ \A r \in Rows(output) : Cardinality(RowsOf(output, r.transaction_id)) = 1
          /\ ~HasDuplicateKey(given.dim_currency, "transaction_currency")
          /\ ~HasDuplicateKey(given.dim_category, "category")
          /\ ~HasDuplicateKey(given.dim_date, "date")
          /\ \A r \in Rows(output) : \A c \in KeyColumns : r[c] # NaN
    /\ pc = "aborted" => Untouched
C5_Witness == pc = "done" /\ writes = 1 /\ output = fact_transactions /\ Len(output) = MaxTxn

\* C6 (as claimed): a run that publishes, given unique transaction_ids, publishes
\* exactly one row for every input transaction_id.
C6_RowCardinality ==
    (pc = "done" /\ UniqueIds) =>
        /\ \A t \in RawRows : Cardinality(RowsOf(output, t.transaction_id)) = 1
        /\ \A r \in Rows(output) : \E t \in RawRows : t.transaction_id = r.transaction_id

\* C7 (as claimed): a static dimension with a duplicated natural key makes the
\* run abort at that dimension's join.
C7_AbortsAtThatJoin ==
    /\ HasDuplicateKey(given.dim_currency, "transaction_currency") =>
          pc \notin AfterCurrency /\ (pc = "aborted" => error = CurrencyMergeError)
    /\ HasDuplicateKey(given.dim_category, "category") =>
          pc \notin AfterCategory /\ (pc = "aborted" => error = CategoryMergeError)
    /\ HasDuplicateKey(given.dim_date, "date") =>
          pc \notin AfterDate /\ (pc = "aborted" => error = DateMergeError)

\* C7 (amended): a static dimension with a duplicated natural key makes the run
\* abort at that dimension's join or at a check before it (the SCD2 resolution
\* check, an earlier dimension's join); the run never gets past that join, to the
\* null-key checks or to a write.
C7_AbortsByThatJoin ==
    /\ DuplicateInAStaticDimension => Untouched
    /\ HasDuplicateKey(given.dim_currency, "transaction_currency") =>
          /\ pc \notin AfterCurrency
          /\ pc = "aborted" => error \in {Scd2Error, CurrencyMergeError}
    /\ HasDuplicateKey(given.dim_category, "category") =>
          /\ pc \notin AfterCategory
          /\ pc = "aborted" => error \in {Scd2Error, CurrencyMergeError, CategoryMergeError}
    /\ HasDuplicateKey(given.dim_date, "date") =>
          /\ pc \notin AfterDate
          /\ pc = "aborted" => error \in {Scd2Error, CurrencyMergeError,
                                          CategoryMergeError, DateMergeError}
C7_Witness ==
    /\ HasDuplicateKey(given.dim_date, "date")
    /\ ~HasDuplicateKey(given.dim_currency, "transaction_currency")
    /\ ~HasDuplicateKey(given.dim_category, "category")
    /\ pc = "aborted" /\ error = DateMergeError
    /\ Len(transactions_df) = 1

\* C8: in every table of the run, a row's is_high_value_transaction is 1 when its
\* amount is above 500.00 and 0 otherwise: 500.00 gives 0, 500.01 gives 1; the
\* amount is the one the transaction came with.
C8_HighValueFlag ==
    /\ \A r \in NormalisedRows :
          /\ r.is_high_value_transaction \in {0, 1}
          /\ r.is_high_value_transaction = 1 <=> r.transaction_amount_eur >= 50001
          /\ \E t \in RawRows : /\ t.transaction_id = r.transaction_id
                                /\ t.amount_eur = r.transaction_amount_eur
    /\ pc = "coerce" => Len(transactions_df) = Len(raw_transactions)
C8_Witness ==
    /\ pc = "done"
    /\ \E r \in Rows(output) :
          r.transaction_amount_eur = 50000 /\ r.is_high_value_transaction = 0
    /\ \E r \in Rows(output) :
          r.transaction_amount_eur = 50001 /\ r.is_high_value_transaction = 1

\* C9 (as claimed): the caller's four dimension tables are, at every point of the
\* run, as they were passed in.
C9_InputsUnchanged ==
    /\ dim_customer = given.dim_customer
    /\ dim_currency = given.dim_currency
    /\ dim_category = given.dim_category
    /\ dim_date = given.dim_date

\* C10: when no input transaction has a matching customer version (the input is
\* empty, or none is covered), the run aborts at the SCD2 resolution check
\* without writing; so a published fact table has at least one row.
C10_EmptyMatchAborts ==
    /\ NoSurvivor => /\ ~Resolved
                     /\ Untouched
                     /\ (pc = "aborted" => error = Scd2Error)
    /\ writes > 0 => Len(output) >= 1
C10_Witness == raw_transactions = <<>> /\ pc = "aborted" /\ error = Scd2Error

====
